---- MODULE Spec2Model ----
(***************************************************************************)
(* A model of the UCI client of clfs/chess2 (package uci).                 *)
(*                                                                         *)
(* Text is modelled as sequences of atoms.  An atom is a word (a string    *)
(* without white space), the space SP or the newline NL.  A line received  *)
(* from the engine is the sequence of its words: the engine's lines are    *)
(* taken in canonical form (words separated by single spaces, no leading   *)
(* or trailing space), so strings.Fields of a line is the line itself.     *)
(* Bytes written to the engine are kept atom by atom, so that a missing    *)
(* space or a missing newline shows in the written text.                   *)
(***************************************************************************)
EXTENDS Integers, Sequences, FiniteSets, TLC

\* Bounds of the model.
MaxLines == 3
MaxCalls == 3

SP == " "
NL == "\n"

-----------------------------------------------------------------------------
(* Text helpers.                                                           *)

RECURSIVE Join(_)
\* strings.Join(words, " "): the words separated by single spaces.
Join(words) ==
    IF words = <<>> THEN <<>>
    ELSE IF Len(words) = 1 THEN <<words[1]>>
    ELSE <<words[1], SP>> \o Join(Tail(words))

\* fmt.Fprintln(w, text): the text followed by a newline.
Fprintln(text) == text \o <<NL>>

\* strings.HasPrefix(line, prefix + " ") for a canonical line: the words of
\* the prefix, followed by a space, so by at least one more word.
HasPrefix(line, prefix) ==
    /\ Len(line) > Len(prefix)
    /\ SubSeq(line, 1, Len(prefix)) = prefix

\* strings.TrimPrefix(line, prefix + " "): the text after the prefix.
TrimPrefix(line, prefix) ==
    IF HasPrefix(line, prefix)
    THEN Join(SubSeq(line, Len(prefix) + 1, Len(line)))
    ELSE Join(line)

-----------------------------------------------------------------------------
(* Option.UnmarshalText (option.go).                                       *)

\* The integers strconv.Atoi is tried on in this model.
AtoiRange == 0..9

\* strconv.Atoi succeeds on the decimal numerals.
AtoiOk(tok) == \E n \in AtoiRange : ToString(n) = tok

Atoi(tok) == CHOOSE n \in AtoiRange : ToString(n) = tok

\* The zero value of Option.
ZeroOption ==
    [Name |-> <<>>, Type |-> "", Default |-> "", Min |-> 0, Max |-> 0,
     Vars |-> <<>>]

RECURSIVE NameEnd(_, _)
\* The first position at or after pos that holds "type", or Len(fields)+1.
NameEnd(fields, pos) ==
    IF pos > Len(fields) THEN pos
    ELSE IF fields[pos] = "type" THEN pos
    ELSE NameEnd(fields, pos + 1)

RECURSIVE WalkPairs(_, _, _)
\* The loop over (cur, nxt) = (fields[pos], fields[pos+1]), pos advancing by
\* one: the option built so far, or an error at a non-integer min or max.
WalkPairs(fields, pos, o) ==
    IF pos >= Len(fields) THEN [err |-> FALSE, o |-> o]
    ELSE LET cur == fields[pos]
             nxt == fields[pos + 1]
         IN  CASE cur = "type" ->
                    WalkPairs(fields, pos + 1, [o EXCEPT !.Type = nxt])
               [] cur = "default" ->
                    WalkPairs(fields, pos + 1, [o EXCEPT !.Default = nxt])
               [] cur = "min" ->
                    IF AtoiOk(nxt)
                    THEN WalkPairs(fields, pos + 1, [o EXCEPT !.Min = Atoi(nxt)])
                    ELSE [err |-> TRUE, o |-> o]
               [] cur = "max" ->
                    IF AtoiOk(nxt)
                    THEN WalkPairs(fields, pos + 1, [o EXCEPT !.Max = Atoi(nxt)])
                    ELSE [err |-> TRUE, o |-> o]
               [] cur = "var" ->
                    WalkPairs(fields, pos + 1,
                              [o EXCEPT !.Vars = Append(@, nxt)])
               [] OTHER -> WalkPairs(fields, pos + 1, o)

\* UnmarshalText demanding four fields, not five.
UnmarshalTextFour(fields) ==
    IF Len(fields) < 4 THEN [err |-> TRUE, o |-> ZeroOption]
    ELSE IF fields[1] # "option" THEN [err |-> TRUE, o |-> ZeroOption]
    ELSE IF fields[2] # "name" THEN [err |-> TRUE, o |-> ZeroOption]
    ELSE LET pos == NameEnd(fields, 3)
             acc == SubSeq(fields, 3, pos - 1)
         IN  WalkPairs(fields, pos, [ZeroOption EXCEPT !.Name = Join(acc)])

\* Option.UnmarshalText on a zero Option: the error flag and the option.
UnmarshalText(fields) ==
    IF Len(fields) < 5 THEN [err |-> TRUE, o |-> ZeroOption]
    ELSE IF fields[1] # "option" THEN [err |-> TRUE, o |-> ZeroOption]
    ELSE IF fields[2] # "name" THEN [err |-> TRUE, o |-> ZeroOption]
    ELSE LET pos == NameEnd(fields, 3)
             acc == SubSeq(fields, 3, pos - 1)
         IN  WalkPairs(fields, pos, [ZeroOption EXCEPT !.Name = Join(acc)])

-----------------------------------------------------------------------------
(* Option.UnmarshalText of src/uci/uci.go, whose Option keeps Min and Max  *)
(* as strings.                                                             *)

ZeroOptionStrings ==
    [Name |-> <<>>, Type |-> "", Default |-> "", Min |-> "", Max |-> "",
     Vars |-> <<>>]

RECURSIVE WalkPairsStrings(_, _, _)
\* The loop over (cur, nxt), pos advancing by one: no value is converted,
\* and no error is returned.
WalkPairsStrings(fields, pos, o) ==
    IF pos >= Len(fields) THEN [err |-> FALSE, o |-> o]
    ELSE LET cur == fields[pos]
             nxt == fields[pos + 1]
         IN  CASE cur = "type" ->
                    WalkPairsStrings(fields, pos + 1, [o EXCEPT !.Type = nxt])
               [] cur = "default" ->
                    WalkPairsStrings(fields, pos + 1,
                                     [o EXCEPT !.Default = nxt])
               [] cur = "min" ->
                    WalkPairsStrings(fields, pos + 1, [o EXCEPT !.Min = nxt])
               [] cur = "max" ->
                    WalkPairsStrings(fields, pos + 1, [o EXCEPT !.Max = nxt])
               [] cur = "var" ->
                    WalkPairsStrings(fields, pos + 1,
                                     [o EXCEPT !.Vars = Append(@, nxt)])
               [] OTHER -> WalkPairsStrings(fields, pos + 1, o)

UnmarshalTextStrings(fields) ==
    IF Len(fields) < 5 THEN [err |-> TRUE, o |-> ZeroOptionStrings]
    ELSE IF fields[1] # "option" THEN [err |-> TRUE, o |-> ZeroOptionStrings]
    ELSE IF fields[2] # "name" THEN [err |-> TRUE, o |-> ZeroOptionStrings]
    ELSE LET pos == NameEnd(fields, 3)
             acc == SubSeq(fields, 3, pos - 1)
         IN  WalkPairsStrings(fields, pos,
                              [ZeroOptionStrings EXCEPT !.Name = Join(acc)])

-----------------------------------------------------------------------------
(* The lines the engine sends in this model.                               *)

IdNameA  == <<"id", "name", "My", "Engine">>
IdAuthor == <<"id", "author", "Me">>
OptFoo   == <<"option", "name", "Do", "Foo", "type", "button">>
OptHash  == <<"option", "name", "Hash", "type", "spin", "default", "1",
              "min", "0", "max", "5">>
OptBad   == <<"option", "name", "Hash", "type", "spin", "min", "x">>
Hello    == <<"hello">>
UciOk    == <<"uciok">>
ReadyOk  == <<"readyok">>
InfoLine == <<"info", "depth", "1">>
BestMoveLine == <<"bestmove", "e2e4">>
BestMoveBare == <<"bestmove">>

\* What an engine sends during the handshake and when asked isready.
HandshakeLines ==
    {IdNameA, IdAuthor, OptFoo, OptHash, OptBad, Hello, UciOk, ReadyOk}

\* What an engine sends during a search.
SearchLines == {InfoLine, BestMoveLine, BestMoveBare}

-----------------------------------------------------------------------------
(* State.                                                                  *)

VARIABLES
    r,        \* c.r: the lines the engine has sent that no Read has returned
    rEnd,     \* c.r: "open", or how it ended: "eof" or "err"
    w,        \* c.w: the text written to the engine
    Name,     \* c.Name
    Author,   \* c.Author
    Options,  \* c.Options
    pc,       \* the blocking call in progress, or "idle"
    buf,      \* the bufio.Scanner of that call: lines read ahead of Scan
    ret,      \* the blocking call that returned last, and its error
    infoCh,   \* the info channel Go returned: values sent, closed or not
    bestCh,   \* the result channel Go returned: values sent, closed or not
    cons,     \* what the caller of Go is receiving from: "none", "info", "best"
    emitted,  \* number of lines the engine has sent
    ncalls,   \* number of calls made on the client
    seen,     \* the lines Scan has returned to the last blocking call
    pre,      \* Name, Author and Options when the last UCI call began
    last,     \* the last call: its name, where its text begins in w, and
              \* whether a search was outstanding when it was made
    searching,\* a go command was written and no bestmove line read since
    req,      \* the search request of the caller of Go
    loc,      \* the local variables of the UCI that returns its results
    out,      \* the name, author and options that UCI returned last
    input,    \* the fields of the text given to Option.UnmarshalText
    given,    \* the option that text was written from, when it was
    parsed    \* what UnmarshalText returned: its error and the option

vars == <<r, rEnd, w, Name, Author, Options, pc, buf, ret, infoCh, bestCh,
          cons, emitted, ncalls, seen, pre, last, searching, req, loc, out,
          input, given, parsed>>

reader  == <<r, rEnd, emitted>>
ident  == <<Name, Author, Options>>
scanner == <<pc, buf, ret, seen>>
chans   == <<infoCh, bestCh, cons>>
locals  == <<loc, out>>
codec   == <<input, given, parsed>>

\* Option.UnmarshalText has not been applied to the input.
NotParsed == [done |-> FALSE, by |-> "none", err |-> FALSE, o |-> ZeroOption]

\* The results UCI declares: name, author string, opts []Option, and uciok.
ZeroLocals ==
    [name |-> <<>>, author |-> <<>>, opts |-> <<>>, uciok |-> FALSE,
     extra |-> FALSE]

ZeroResults == [name |-> <<>>, author |-> <<>>, opts |-> <<>>]

\* A channel nobody has made yet, and make(chan T).
NoChan   == [made |-> FALSE, sent |-> 0, closed |-> FALSE]
MakeChan == [made |-> TRUE, sent |-> 0, closed |-> FALSE]

\* The zero value of GoParameters and of Search.
ZeroSearch ==
    [SearchMoves |-> <<>>, Ponder |-> FALSE, Infinite |-> FALSE, Mate |-> 0,
     MoveTime |-> 0, WhiteTime |-> 0, BlackTime |-> 0, WhiteIncrement |-> 0,
     BlackIncrement |-> 0, MovesToGo |-> 0, Depth |-> 0, Nodes |-> 0]

\* NewClient(r, w): all fields are zero values.
Init ==
    /\ r = <<>>
    /\ rEnd = "open"
    /\ w = <<>>
    /\ Name = <<>>
    /\ Author = <<>>
    /\ Options = <<>>
    /\ pc = "idle"
    /\ buf = <<>>
    /\ ret = [op |-> "none", err |-> "nil"]
    /\ infoCh = NoChan
    /\ bestCh = NoChan
    /\ cons = "none"
    /\ emitted = 0
    /\ ncalls = 0
    /\ seen = <<>>
    /\ pre = [Name |-> <<>>, Author |-> <<>>, Options |-> <<>>]
    /\ last = [op |-> "none", args |-> <<>>, from |-> 0,
               searching |-> FALSE]
    /\ searching = FALSE
    /\ req = ZeroSearch
    /\ loc = ZeroLocals
    /\ input = <<>>
    /\ given = ZeroOption
    /\ parsed = NotParsed
    /\ out = ZeroResults

-----------------------------------------------------------------------------
(* The engine, at the other end of c.r.                                    *)

EngineSend(line) ==
    /\ rEnd = "open"
    /\ emitted < MaxLines
    /\ r' = Append(r, line)
    /\ emitted' = emitted + 1
    /\ UNCHANGED <<rEnd, w, ident, scanner, chans, ncalls, pre, last,
                   searching, req>>
    /\ UNCHANGED <<locals, codec>>

\* The stream ends: end of file, or a read error.
EngineClose(how) ==
    /\ rEnd = "open"
    /\ rEnd' = how
    /\ UNCHANGED <<r, emitted, w, ident, scanner, chans, ncalls, pre, last,
                   searching, req>>
    /\ UNCHANGED <<locals, codec>>

-----------------------------------------------------------------------------
(* bufio.Scanner over c.r.  A Scan returns the next buffered line; when    *)
(* none is buffered it Reads, and a Read returns any number n >= 1 of the  *)
(* lines the engine has sent: those after the first stay in the buffer of  *)
(* this scanner.                                                           *)

\* Scan can return true: a line is buffered, or a Read can return some.
ScanHasLine == buf # <<>> \/ r # <<>>

\* Scan returns false: nothing is buffered and the reader has ended.
ScanAtEnd == buf = <<>> /\ r = <<>> /\ rEnd # "open"

\* s.Err() after Scan returned false: nil at end of file.
ScanErr == IF rEnd = "err" THEN "read" ELSE "nil"

\* The sizes the Read of a Scan may have: none is made when a line is buffered.
ReadSizes == IF buf # <<>> THEN {0} ELSE 1..Len(r)

\* s.Text() after a Scan whose Read returned n lines.
ScanText(n) == IF buf # <<>> THEN Head(buf) ELSE Head(r)

\* The buffer and the reader after that Scan.
ScanBuf(n) == IF buf # <<>> THEN Tail(buf) ELSE SubSeq(r, 2, n)

ScanRest(n) == IF buf # <<>> THEN r ELSE SubSeq(r, n + 1, Len(r))

\* A call with arguments begins: its text is written and it is counted.
CalledWith(op, args, text) ==
    /\ ncalls < MaxCalls
    /\ ncalls' = ncalls + 1
    /\ w' = w \o text
    /\ last' = [op |-> op, args |-> args, from |-> Len(w),
                searching |-> searching]

\* A call without arguments begins.
Called(op, text) == CalledWith(op, <<>>, text)

\* A search ends, as far as the client can tell, when a scanner consumes a
\* bestmove line.
ObservesBestMove(line) == line # <<>> /\ line[1] = "bestmove"

-----------------------------------------------------------------------------
(* Client.UCI (client.go).                                                 *)

\* A handshake that puts each new option before the earlier ones.
AppendOptionFront(opts, opt) == <<opt>> \o opts

\* c.Options = append(c.Options, opt)
AppendOption(opts, opt) == Append(opts, opt)

UCICall ==
    /\ pc = "idle"
    /\ Called("UCI", Fprintln(<<"uci">>))
    /\ pc' = "UCI"
    /\ buf' = <<>>
    /\ seen' = <<>>
    /\ ret' = [op |-> "none", err |-> "nil"]
    /\ pre' = [Name |-> Name, Author |-> Author, Options |-> Options]
    /\ UNCHANGED <<reader, ident, chans, searching, req>>
    /\ UNCHANGED <<locals, codec>>

\* One iteration of the loop: s.Scan() returned true with s.Text() = line.
UCILine(n) ==
    /\ pc = "UCI"
    /\ ScanHasLine
    /\ LET line == ScanText(n)
           opt  == UnmarshalText(line)
       IN  /\ seen' = Append(seen, line)
           /\ buf' = ScanBuf(n)
           /\ r' = ScanRest(n)
           /\ searching' = (searching /\ ~ObservesBestMove(line))
           /\ \/ /\ HasPrefix(line, <<"id", "name">>)
                 /\ Name' = TrimPrefix(line, <<"id", "name">>)
                 /\ UNCHANGED <<Author, Options, pc, ret>>
              \/ /\ HasPrefix(line, <<"id", "author">>)
                 /\ Author' = TrimPrefix(line, <<"id", "author">>)
                 /\ UNCHANGED <<Name, Options, pc, ret>>
              \/ /\ HasPrefix(line, <<"option">>)
                 /\ ~opt.err
                 /\ Options' = AppendOption(Options, opt.o)
                 /\ UNCHANGED <<Name, Author, pc, ret>>
              \/ /\ HasPrefix(line, <<"option">>)
                 /\ opt.err
                 /\ pc' = "idle"
                 /\ ret' = [op |-> "UCI", err |-> "todo"]
                 /\ UNCHANGED <<Name, Author, Options>>
              \/ /\ line = UciOk
                 /\ pc' = "idle"
                 /\ ret' = [op |-> "UCI", err |-> "nil"]
                 /\ UNCHANGED <<Name, Author, Options>>
              \/ /\ ~HasPrefix(line, <<"id", "name">>)
                 /\ ~HasPrefix(line, <<"id", "author">>)
                 /\ ~HasPrefix(line, <<"option">>)
                 /\ line # UciOk
                 /\ UNCHANGED <<Name, Author, Options, pc, ret>>
    /\ UNCHANGED <<rEnd, emitted, w, chans, ncalls, pre, last, req>>
    /\ UNCHANGED <<locals, codec>>

\* s.Scan() returned false: the loop ends and UCI returns s.Err().
UCIEnd ==
    /\ pc = "UCI"
    /\ ScanAtEnd
    /\ pc' = "idle"
    /\ ret' = [op |-> "UCI", err |-> ScanErr]
    /\ UNCHANGED <<reader, w, ident, buf, seen, chans, ncalls, pre, last,
                   searching, req>>
    /\ UNCHANGED <<locals, codec>>

-----------------------------------------------------------------------------
(* The Client.UCI that returns the name, the author and the options (the   *)
(* revision of the client in src/unnamed/part_000).                        *)

UCIRetCall ==
    /\ pc = "idle"
    /\ Called("UCIRet", Fprintln(<<"uci">>))
    /\ pc' = "UCIRet"
    /\ buf' = <<>>
    /\ seen' = <<>>
    /\ ret' = [op |-> "none", err |-> "nil"]
    /\ loc' = ZeroLocals
    /\ UNCHANGED <<reader, ident, chans, pre, searching, req, out, codec>>

\* for s.Scan() && !uciok: Scan returned a line and uciok is still false.
UCIRetLine(n) ==
    /\ pc = "UCIRet"
    /\ ~loc.uciok
    /\ ScanHasLine
    /\ LET line == ScanText(n)
           opt  == UnmarshalText(line)
       IN  /\ seen' = Append(seen, line)
           /\ buf' = ScanBuf(n)
           /\ r' = ScanRest(n)
           /\ searching' = (searching /\ ~ObservesBestMove(line))
           /\ \/ /\ HasPrefix(line, <<"id", "name">>)
                 /\ loc' = [loc EXCEPT
                               !.name = TrimPrefix(line, <<"id", "name">>)]
                 /\ UNCHANGED <<pc, ret, out>>
              \/ /\ HasPrefix(line, <<"id", "author">>)
                 /\ loc' = [loc EXCEPT
                               !.author = TrimPrefix(line, <<"id", "author">>)]
                 /\ UNCHANGED <<pc, ret, out>>
              \/ /\ HasPrefix(line, <<"option">>)
                 /\ ~opt.err
                 /\ loc' = [loc EXCEPT !.opts = AppendOption(@, opt.o)]
                 /\ UNCHANGED <<pc, ret, out>>
              \/ /\ HasPrefix(line, <<"option">>)
                 /\ opt.err
                 /\ pc' = "idle"
                 /\ ret' = [op |-> "UCIRet", err |-> "todo"]
                 /\ out' = ZeroResults
                 /\ UNCHANGED loc
              \/ /\ line = UciOk
                 /\ loc' = [loc EXCEPT !.uciok = TRUE]
                 /\ UNCHANGED <<pc, ret, out>>
              \/ /\ ~HasPrefix(line, <<"id", "name">>)
                 /\ ~HasPrefix(line, <<"id", "author">>)
                 /\ ~HasPrefix(line, <<"option">>)
                 /\ line # UciOk
                 /\ UNCHANGED <<pc, ret, loc, out>>
    /\ UNCHANGED <<rEnd, emitted, w, ident, chans, ncalls, pre, last, req,
                   codec>>

\* for s.Scan() && !uciok, with uciok true: Scan is called before uciok is
\* tested, so one more line is taken from the stream, and dropped.
UCIRetExtra(n) ==
    /\ pc = "UCIRet"
    /\ loc.uciok
    /\ ScanHasLine
    /\ seen' = Append(seen, ScanText(n))
    /\ buf' = ScanBuf(n)
    /\ r' = ScanRest(n)
    /\ searching' = (searching /\ ~ObservesBestMove(ScanText(n)))
    /\ loc' = [loc EXCEPT !.extra = TRUE]
    /\ pc' = "idle"
    /\ ret' = [op |-> "UCIRet", err |-> "nil"]
    /\ out' = [name |-> loc.name, author |-> loc.author, opts |-> loc.opts]
    /\ UNCHANGED <<rEnd, emitted, w, ident, chans, ncalls, pre, last, req,
                   codec>>

\* Scan returned false: err = s.Err() and the results are returned.
UCIRetEnd ==
    /\ pc = "UCIRet"
    /\ ScanAtEnd
    /\ pc' = "idle"
    /\ ret' = [op |-> "UCIRet", err |-> ScanErr]
    /\ out' = [name |-> loc.name, author |-> loc.author, opts |-> loc.opts]
    /\ UNCHANGED <<reader, w, ident, buf, seen, chans, ncalls, pre, last,
                   searching, req, loc, codec>>

-----------------------------------------------------------------------------
(* Client.IsReady (client.go).                                             *)

IsReadyCall ==
    /\ pc = "idle"
    /\ Called("IsReady", Fprintln(<<"isready">>))
    /\ pc' = "IsReady"
    /\ buf' = <<>>
    /\ seen' = <<>>
    /\ ret' = [op |-> "none", err |-> "nil"]
    /\ UNCHANGED <<reader, ident, chans, pre, searching, req>>
    /\ UNCHANGED <<locals, codec>>

\* IsReadyLine, were the loop of IsReady to fold "id name" lines as the
\* loop of UCI does.
IsReadyLineFolding(n) ==
    /\ pc = "IsReady"
    /\ ScanHasLine
    /\ LET line == ScanText(n)
       IN  /\ seen' = Append(seen, line)
           /\ buf' = ScanBuf(n)
           /\ r' = ScanRest(n)
           /\ searching' = (searching /\ ~ObservesBestMove(line))
           /\ Name' = IF HasPrefix(line, <<"id", "name">>)
                      THEN TrimPrefix(line, <<"id", "name">>) ELSE Name
           /\ \/ /\ line = ReadyOk
                 /\ pc' = "idle"
                 /\ ret' = [op |-> "IsReady", err |-> "nil"]
              \/ /\ line # ReadyOk
                 /\ UNCHANGED <<pc, ret>>
    /\ UNCHANGED <<rEnd, emitted, w, Author, Options, chans, ncalls, pre,
                   last, req>>
    /\ UNCHANGED <<locals, codec>>

IsReadyLine(n) ==
    /\ pc = "IsReady"
    /\ ScanHasLine
    /\ LET line == ScanText(n)
       IN  /\ seen' = Append(seen, line)
           /\ buf' = ScanBuf(n)
           /\ r' = ScanRest(n)
           /\ searching' = (searching /\ ~ObservesBestMove(line))
           /\ \/ /\ line = ReadyOk
                 /\ pc' = "idle"
                 /\ ret' = [op |-> "IsReady", err |-> "nil"]
              \/ /\ line # ReadyOk
                 /\ UNCHANGED <<pc, ret>>
    /\ UNCHANGED <<rEnd, emitted, w, ident, chans, ncalls, pre, last, req>>
    /\ UNCHANGED <<locals, codec>>

IsReadyEnd ==
    /\ pc = "IsReady"
    /\ ScanAtEnd
    /\ pc' = "idle"
    /\ ret' = [op |-> "IsReady", err |-> ScanErr]
    /\ UNCHANGED <<reader, w, ident, buf, seen, chans, ncalls, pre, last,
                   searching, req>>
    /\ UNCHANGED <<locals, codec>>

-----------------------------------------------------------------------------
(* The commands that only write (client.go).  Each is one step: the        *)
(* Fprint calls of one command are not interleaved with another command's. *)

\* Debug: "debug on" when on, and then, in both cases, "debug off".
DebugText(on) ==
    (IF on THEN Fprintln(<<"debug", SP, "on">>) ELSE <<>>)
        \o Fprintln(<<"debug", SP, "off">>)

\* SetOption: Fprintf without a newline.
SetOptionText(name, value) ==
    IF value = ""
    THEN <<"setoption", SP, "name", SP, name>>
    ELSE <<"setoption", SP, "name", SP, name, SP, "value", SP, value>>

RegisterText(name, code) ==
    <<"register", SP, "name", SP, name, SP, "code", SP, code, NL>>

PositionFENText(fen, moves) ==
    <<"position", SP, "fen", SP, fen>>
        \o (IF Len(moves) > 0 THEN <<SP, "moves", SP>> \o Join(moves) ELSE <<>>)
        \o <<NL>>

\* PositionStartPos: Fprintln, so a newline, before the moves.
PositionStartPosText(moves) ==
    Fprintln(<<"position", SP, "startpos">>)
        \o (IF Len(moves) > 0 THEN <<SP, "moves", SP>> \o Join(moves) ELSE <<>>)
        \o <<NL>>

\* time.Duration.Milliseconds(): the nanoseconds divided by 1e6, truncated
\* toward zero.
Milliseconds(d) ==
    IF d >= 0 THEN d \div 1000000 ELSE -((-d) \div 1000000)

\* Fprintf(" key %d", n)
KeyNum(key, n) == <<SP, key, SP, ToString(n)>>

\* The text Client.Go writes (client.go): no newline.
GoText(p) ==
    <<"go">>
        \o (IF p.Ponder THEN <<SP, "ponder">> ELSE <<>>)
        \o (IF p.Infinite THEN <<SP, "infinite">> ELSE <<>>)
        \o (IF p.Mate > 0 THEN KeyNum("mate", p.Mate) ELSE <<>>)
        \o (IF p.MoveTime > 0
            THEN KeyNum("movetime", Milliseconds(p.MoveTime)) ELSE <<>>)
        \o (IF p.WhiteTime > 0
            THEN KeyNum("wtime", Milliseconds(p.WhiteTime)) ELSE <<>>)
        \o (IF p.BlackTime > 0
            THEN KeyNum("btime", Milliseconds(p.BlackTime)) ELSE <<>>)
        \o (IF p.WhiteIncrement > 0
            THEN KeyNum("winc", Milliseconds(p.WhiteIncrement)) ELSE <<>>)
        \o (IF p.BlackIncrement > 0
            THEN KeyNum("binc", Milliseconds(p.BlackIncrement)) ELSE <<>>)
        \o (IF p.MovesToGo > 0 THEN KeyNum("movestogo", p.MovesToGo) ELSE <<>>)
        \o (IF p.Depth > 0 THEN KeyNum("depth", p.Depth) ELSE <<>>)
        \o (IF p.Nodes > 0 THEN KeyNum("nodes", p.Nodes) ELSE <<>>)
        \o (IF Len(p.SearchMoves) > 0
            THEN <<SP, "searchmoves", SP>> \o Join(p.SearchMoves) ELSE <<>>)

\* A command with arguments that writes and returns.
SendWith(op, args, text) ==
    /\ CalledWith(op, args, text)
    /\ UNCHANGED <<reader, ident, scanner, chans, pre>>
    /\ UNCHANGED <<locals, codec>>

\* A command without arguments that writes and returns.
Send(op, text) == SendWith(op, <<>>, text)

Debug(on) ==
    /\ SendWith("Debug", <<on>>, DebugText(on))
    /\ UNCHANGED <<searching, req>>

SetOption(name, value) ==
    /\ SendWith("SetOption", <<name, value>>, SetOptionText(name, value))
    /\ UNCHANGED <<searching, req>>

Register(name, code) ==
    /\ Send("Register", RegisterText(name, code))
    /\ UNCHANGED <<searching, req>>

RegisterLater ==
    /\ Send("RegisterLater", Fprintln(<<"register", SP, "later">>))
    /\ UNCHANGED <<searching, req>>

UCINewGame ==
    /\ Send("UCINewGame", Fprintln(<<"ucinewgame">>))
    /\ UNCHANGED <<searching, req>>

PositionFEN(fen, moves) ==
    /\ SendWith("PositionFEN", <<fen, moves>>, PositionFENText(fen, moves))
    /\ UNCHANGED <<searching, req>>

PositionStartPos(moves) ==
    /\ SendWith("PositionStartPos", <<moves>>, PositionStartPosText(moves))
    /\ UNCHANGED <<searching, req>>

\* Client.Go of client.go: writes the command and returns.
Go(p) ==
    /\ Send("Go", GoText(p))
    /\ searching' = TRUE
    /\ req' = p

Stop ==
    /\ Send("Stop", Fprintln(<<"stop">>))
    /\ UNCHANGED <<searching, req>>

PonderHit ==
    /\ Send("PonderHit", Fprintln(<<"ponderhit">>))
    /\ UNCHANGED <<searching, req>>

Quit ==
    /\ Send("Quit", Fprintln(<<"quit">>))
    /\ UNCHANGED <<searching, req>>

\* Client.SetOption of src/uci/uci.go: return nil // todo. Nothing is written.
SetOptionTodo(name, value) ==
    /\ SendWith("SetOption", <<name, value>>, <<>>)
    /\ UNCHANGED <<searching, req>>

\* Client.Position of src/uci/uci.go: return nil // todo. Nothing is written.
PositionTodo ==
    /\ Send("Position", <<>>)
    /\ UNCHANGED <<searching, req>>

-----------------------------------------------------------------------------
(* Search.String and the Client.Go that returns channels (the revision of  *)
(* the client in src/unnamed/part_000).                                    *)

\* Search.String: a field is written when it is not zero, a time.Duration
\* is written with %d (its nanoseconds), and "searchmoves" has no space
\* before it.
SearchString(s) ==
    <<"go">>
        \o (IF s.Ponder THEN <<SP, "ponder">> ELSE <<>>)
        \o (IF s.Infinite THEN <<SP, "infinite">> ELSE <<>>)
        \o (IF s.Mate # 0 THEN KeyNum("mate", s.Mate) ELSE <<>>)
        \o (IF s.MoveTime # 0 THEN KeyNum("movetime", s.MoveTime) ELSE <<>>)
        \o (IF s.WhiteTime # 0 THEN KeyNum("wtime", s.WhiteTime) ELSE <<>>)
        \o (IF s.BlackTime # 0 THEN KeyNum("btime", s.BlackTime) ELSE <<>>)
        \o (IF s.WhiteIncrement # 0
            THEN KeyNum("winc", s.WhiteIncrement) ELSE <<>>)
        \o (IF s.BlackIncrement # 0
            THEN KeyNum("binc", s.BlackIncrement) ELSE <<>>)
        \o (IF s.MovesToGo # 0 THEN KeyNum("movestogo", s.MovesToGo) ELSE <<>>)
        \o (IF s.Depth # 0 THEN KeyNum("depth", s.Depth) ELSE <<>>)
        \o (IF s.Nodes # 0 THEN KeyNum("nodes", s.Nodes) ELSE <<>>)
        \o (IF Len(s.SearchMoves) > 0
            THEN <<"searchmoves", SP>> \o Join(s.SearchMoves) ELSE <<>>)

\* Go writes the command, makes the two channels and starts scanning.
GoSearchCall(s) ==
    /\ pc = "idle"
    /\ Called("GoSearch", SearchString(s) \o <<NL>>)
    /\ infoCh' = MakeChan
    /\ bestCh' = MakeChan
    /\ cons' = "none"
    /\ pc' = "GoSearch"
    /\ buf' = <<>>
    /\ seen' = <<>>
    /\ ret' = [op |-> "none", err |-> "nil"]
    /\ searching' = TRUE
    /\ req' = s
    /\ UNCHANGED <<reader, ident, pre>>
    /\ UNCHANGED <<locals, codec>>

\* scanner.Scan() returned true and the text is not "bestmove": the loop
\* goes on.  Nothing is sent on either channel.
GoSearchLine(n) ==
    /\ pc = "GoSearch"
    /\ ScanHasLine
    /\ ScanText(n) # BestMoveBare
    /\ seen' = Append(seen, ScanText(n))
    /\ buf' = ScanBuf(n)
    /\ r' = ScanRest(n)
    /\ searching' = (searching /\ ~ObservesBestMove(ScanText(n)))
    /\ UNCHANGED <<rEnd, emitted, w, ident, pc, ret, chans, ncalls, pre,
                   last, req>>
    /\ UNCHANGED <<locals, codec>>

\* The text is exactly "bestmove": break, and Go returns the channels.
GoSearchBreak(n) ==
    /\ pc = "GoSearch"
    /\ ScanHasLine
    /\ ScanText(n) = BestMoveBare
    /\ seen' = Append(seen, ScanText(n))
    /\ buf' = ScanBuf(n)
    /\ r' = ScanRest(n)
    /\ searching' = FALSE
    /\ pc' = "idle"
    /\ ret' = [op |-> "GoSearch", err |-> "nil"]
    /\ UNCHANGED <<rEnd, emitted, w, ident, chans, ncalls, pre, last, req>>
    /\ UNCHANGED <<locals, codec>>

\* scanner.Scan() returned false: Go returns the channels.
GoSearchEnd ==
    /\ pc = "GoSearch"
    /\ ScanAtEnd
    /\ pc' = "idle"
    /\ ret' = [op |-> "GoSearch", err |-> "nil"]
    /\ UNCHANGED <<reader, w, ident, buf, seen, chans, ncalls, pre, last,
                   searching, req>>
    /\ UNCHANGED <<locals, codec>>

\* The caller of Go receives from one of the channels Go returned.  A
\* receive completes when a value is sent or the channel is closed; the
\* client has no statement that sends on or closes either channel, so the
\* model has no step that completes a receive.
Recv(ch) ==
    /\ pc = "idle"
    /\ ret.op = "GoSearch"
    /\ cons = "none"
    /\ cons' = ch
    /\ UNCHANGED <<reader, w, ident, scanner, infoCh, bestCh, ncalls, pre,
                   last, searching, req>>
    /\ UNCHANGED <<locals, codec>>

-----------------------------------------------------------------------------
(* The handshake: an engine, and a caller of UCI and IsReady.              *)

Next ==
    \/ \E line \in HandshakeLines : EngineSend(line)
    \/ \E how \in {"eof", "err"} : EngineClose(how)
    \/ UCICall
    \/ \E n \in ReadSizes : UCILine(n)
    \/ UCIEnd
    \/ UCIRetCall
    \/ \E n \in ReadSizes : UCIRetLine(n)
    \/ \E n \in ReadSizes : UCIRetExtra(n)
    \/ UCIRetEnd
    \/ IsReadyCall
    \/ \E n \in ReadSizes : IsReadyLine(n)
    \/ IsReadyEnd

Spec == Init /\ [][Next]_vars

-----------------------------------------------------------------------------
(* A search: an engine, a caller of every command, and a consumer of the   *)
(* channels.                                                               *)

OptionNames  == {"Hash"}
OptionValues == {"", "1"}
MoveLists    == {<<>>, <<"e2e4">>}

PonderSearch == [ZeroSearch EXCEPT !.Ponder = TRUE]
DepthSearch  == [ZeroSearch EXCEPT !.Depth = 3, !.SearchMoves = <<"e2e4">>]

SomeSearches == {PonderSearch, DepthSearch}

\* The calls of one session of this specification.
MaxCommands == 2

\* A call made while fewer than MaxCommands calls have been made.
Within(A) == ncalls < MaxCommands /\ A

NextSearch ==
    \/ \E line \in SearchLines : EngineSend(line)
    \/ \E how \in {"eof", "err"} : EngineClose(how)
    \/ \E on \in BOOLEAN : Within(Debug(on))
    \/ \E name \in OptionNames, value \in OptionValues :
          Within(SetOption(name, value))
    \/ Within(Register("me", "123"))
    \/ Within(RegisterLater)
    \/ Within(UCINewGame)
    \/ \E moves \in MoveLists : Within(PositionFEN("8/8", moves))
    \/ \E moves \in MoveLists : Within(PositionStartPos(moves))
    \/ \E p \in SomeSearches : Within(Go(p))
    \/ Within(Stop)
    \/ Within(PonderHit)
    \/ Within(Quit)
    \/ \E name \in OptionNames, value \in OptionValues :
          Within(SetOptionTodo(name, value))
    \/ Within(PositionTodo)
    \/ \E s \in SomeSearches : Within(GoSearchCall(s))
    \/ \E n \in ReadSizes : GoSearchLine(n)
    \/ \E n \in ReadSizes : GoSearchBreak(n)
    \/ GoSearchEnd
    \/ \E ch \in {"info", "best"} : Recv(ch)

SpecSearch == Init /\ [][NextSearch]_vars

\* The client's own steps are taken when they can be: a call in its scan
\* loop goes on scanning, and returns when the scan ends.
FairSearch ==
    /\ SpecSearch
    /\ WF_vars(\E n \in ReadSizes : GoSearchLine(n))
    /\ WF_vars(\E n \in ReadSizes : GoSearchBreak(n))
    /\ WF_vars(GoSearchEnd)
    /\ WF_vars(\E ch \in {"info", "best"} : Recv(ch))

-----------------------------------------------------------------------------
(* One search and its stops: an engine, a caller of Go and of Stop, and a  *)
(* consumer of the channels.                                               *)

NextStop ==
    \/ \E line \in SearchLines : EngineSend(line)
    \/ \E how \in {"eof", "err"} : EngineClose(how)
    \/ Go(PonderSearch)
    \/ Stop
    \/ GoSearchCall(PonderSearch)
    \/ \E n \in ReadSizes : GoSearchLine(n)
    \/ \E n \in ReadSizes : GoSearchBreak(n)
    \/ GoSearchEnd
    \/ \E ch \in {"info", "best"} : Recv(ch)

SpecStop == Init /\ [][NextStop]_vars

-----------------------------------------------------------------------------
(* A session: a handshake, and then the calls that follow it, over an      *)
(* engine that may send identity and option lines at any time.             *)

SessionLines == {IdNameA, OptFoo, UciOk, ReadyOk, BestMoveBare}

NextSession ==
    \/ \E line \in SessionLines : EngineSend(line)
    \/ EngineClose("eof")
    \/ Within(UCICall)
    \/ \E n \in ReadSizes : UCILine(n)
    \/ UCIEnd
    \/ Within(IsReadyCall)
    \/ \E n \in ReadSizes : IsReadyLine(n)
    \/ IsReadyEnd
    \/ Within(GoSearchCall(PonderSearch))
    \/ \E n \in ReadSizes : GoSearchLine(n)
    \/ \E n \in ReadSizes : GoSearchBreak(n)
    \/ GoSearchEnd
    \/ Within(Stop)
    \/ Within(PonderHit)
    \/ Within(Quit)

SpecSession == Init /\ [][NextSession]_vars

-----------------------------------------------------------------------------
(* The go command as a function of the search request.                     *)

Durations == {0, 1500000}
Counts    == {0, 3}
SearchMoveLists == {<<>>, <<"e2e4">>, <<"e2e4", "d2d4">>}

Searches ==
    [SearchMoves : SearchMoveLists, Ponder : BOOLEAN, Infinite : BOOLEAN,
     Mate : Counts, MoveTime : Durations, WhiteTime : Durations,
     BlackTime : Durations, WhiteIncrement : Durations,
     BlackIncrement : Durations, MovesToGo : Counts, Depth : Counts,
     Nodes : Counts]

InitGo ==
    /\ r = <<>>
    /\ rEnd = "open"
    /\ w = <<>>
    /\ Name = <<>>
    /\ Author = <<>>
    /\ Options = <<>>
    /\ pc = "idle"
    /\ buf = <<>>
    /\ ret = [op |-> "none", err |-> "nil"]
    /\ infoCh = NoChan
    /\ bestCh = NoChan
    /\ cons = "none"
    /\ emitted = 0
    /\ ncalls = 0
    /\ seen = <<>>
    /\ pre = [Name |-> <<>>, Author |-> <<>>, Options |-> <<>>]
    /\ last = [op |-> "none", args |-> <<>>, from |-> 0,
               searching |-> FALSE]
    /\ searching = FALSE
    /\ req \in Searches
    /\ loc = ZeroLocals
    /\ input = <<>>
    /\ given = ZeroOption
    /\ parsed = NotParsed
    /\ out = ZeroResults

NextGo ==
    \/ Go(req)
    \/ GoSearchCall(req)
    \/ GoSearchEnd
    \/ EngineClose("eof")

SpecGo == InitGo /\ [][NextGo]_vars

-----------------------------------------------------------------------------
(* Option.UnmarshalText applied to the declarations of the options of the  *)
(* test table (src/unnamed/part_001).                                      *)

\* The words of a name: its atoms other than the spaces between them.
Words(name) == SelectSeq(name, LAMBDA a : a # SP)

RECURSIVE VarFields(_)
\* "var <v>" for each of the values, in order.
VarFields(vs) ==
    IF vs = <<>> THEN <<>> ELSE <<"var", Head(vs)>> \o VarFields(Tail(vs))

\* The declaration of an option, as the test table writes it: "option name
\* <name> type <kind>", "default <d>" for a default, "min <m> max <M>" for a
\* spin, and "var <v>" for each value.
OptionText(o) ==
    <<"option", "name">> \o Words(o.Name) \o <<"type", o.Type>>
        \o (IF o.Default # "" THEN <<"default", o.Default>> ELSE <<>>)
        \o (IF o.Type = "spin"
            THEN <<"min", ToString(o.Min), "max", ToString(o.Max)>>
            ELSE <<>>)
        \o VarFields(o.Vars)

\* Names of one and of two words, none holding "type".
GivenNames == {<<"Hash">>, <<"Move", "Overhead">>, <<"max", "var">>}

\* Defaults: none, a number, and words, one of them the word of a key.
GivenDefaults == {"", "1", "false", "var"}

GivenLimits == {0, 5}

\* Lists of values, with a repeated value and with the word of a key.
GivenVars ==
    {<<>>} \cup {<<a>> : a \in {"no", "max"}}
           \cup {<<a, b>> : a \in {"no", "max"}, b \in {"no", "always"}}

\* The options of the five kinds.
GivenOptions ==
    {[Name |-> Join(n), Type |-> "button", Default |-> "", Min |-> 0,
      Max |-> 0, Vars |-> <<>>] : n \in GivenNames}
    \cup {[Name |-> Join(n), Type |-> t, Default |-> d, Min |-> 0,
           Max |-> 0, Vars |-> <<>>] :
             n \in GivenNames, t \in {"check", "string"}, d \in GivenDefaults}
    \cup {[Name |-> Join(n), Type |-> "spin", Default |-> d, Min |-> lo,
           Max |-> hi, Vars |-> <<>>] :
             n \in GivenNames, d \in GivenDefaults,
             lo \in GivenLimits, hi \in GivenLimits}
    \cup {[Name |-> Join(n), Type |-> "combo", Default |-> d, Min |-> 0,
           Max |-> 0, Vars |-> vs] :
             n \in GivenNames, d \in GivenDefaults, vs \in GivenVars}

\* A new client, and the text of one of the options.
InitOption ==
    /\ r = <<>>
    /\ rEnd = "open"
    /\ w = <<>>
    /\ Name = <<>>
    /\ Author = <<>>
    /\ Options = <<>>
    /\ pc = "idle"
    /\ buf = <<>>
    /\ ret = [op |-> "none", err |-> "nil"]
    /\ infoCh = NoChan
    /\ bestCh = NoChan
    /\ cons = "none"
    /\ emitted = 0
    /\ ncalls = 0
    /\ seen = <<>>
    /\ pre = [Name |-> <<>>, Author |-> <<>>, Options |-> <<>>]
    /\ last = [op |-> "none", args |-> <<>>, from |-> 0,
               searching |-> FALSE]
    /\ searching = FALSE
    /\ req = ZeroSearch
    /\ loc = ZeroLocals
    /\ out = ZeroResults
    /\ given \in GivenOptions
    /\ input = OptionText(given)
    /\ parsed = NotParsed

\* var opt Option; err := opt.UnmarshalText(input), with option.go.
Unmarshal ==
    /\ ~parsed.done
    /\ parsed' = [done |-> TRUE, by |-> "option.go",
                  err |-> UnmarshalText(input).err,
                  o |-> UnmarshalText(input).o]
    /\ UNCHANGED <<reader, w, ident, scanner, chans, ncalls, pre, last,
                   searching, req, locals, input, given>>

NextOption == Unmarshal

SpecOption == InitOption /\ [][NextOption]_vars

-----------------------------------------------------------------------------
(* Option.UnmarshalText, of option.go and of uci.go, and the handshake of  *)
(* client.go, applied to one line of text.                                 *)

MaxFields == 5
MaxPairs == 4

\* The sequences over S of at most n elements.
SeqsUpTo(S, n) == UNION {[1..k -> S] : k \in 0..n}

\* Lines of few fields, beginning with "option name" or not.
ShortTexts == SeqsUpTo({"option", "name", "Hash", "type"}, MaxFields)

\* Declarations of a spin with keys, numbers and another word after its kind.
SpinTexts ==
    {<<"option", "name", "Hash", "type", "spin">> \o t :
        t \in SeqsUpTo({"default", "min", "max", "var", "1", "5", "x"},
                       MaxPairs)}

Texts == ShortTexts \cup SpinTexts \cup {IdNameA, IdAuthor, UciOk}

\* A new client over a reader that holds one line and then ends.
InitText ==
    /\ input \in Texts
    /\ r = <<input>>
    /\ rEnd = "eof"
    /\ w = <<>>
    /\ Name = <<>>
    /\ Author = <<>>
    /\ Options = <<>>
    /\ pc = "idle"
    /\ buf = <<>>
    /\ ret = [op |-> "none", err |-> "nil"]
    /\ infoCh = NoChan
    /\ bestCh = NoChan
    /\ cons = "none"
    /\ emitted = 1
    /\ ncalls = 0
    /\ seen = <<>>
    /\ pre = [Name |-> <<>>, Author |-> <<>>, Options |-> <<>>]
    /\ last = [op |-> "none", args |-> <<>>, from |-> 0,
               searching |-> FALSE]
    /\ searching = FALSE
    /\ req = ZeroSearch
    /\ loc = ZeroLocals
    /\ out = ZeroResults
    /\ given = ZeroOption
    /\ parsed = NotParsed

\* var opt Option; err := opt.UnmarshalText(input), with uci.go.
UnmarshalStrings ==
    /\ ~parsed.done
    /\ parsed' = [done |-> TRUE, by |-> "uci.go",
                  err |-> UnmarshalTextStrings(input).err,
                  o |-> UnmarshalTextStrings(input).o]
    /\ UNCHANGED <<reader, w, ident, scanner, chans, ncalls, pre, last,
                   searching, req, locals, input, given>>

NextText ==
    \/ Unmarshal
    \/ UnmarshalStrings
    \/ UCICall
    \/ \E n \in ReadSizes : UCILine(n)
    \/ UCIEnd

SpecText == InitText /\ [][NextText]_vars

-----------------------------------------------------------------------------
(* Properties.                                                             *)

Last(q) == q[Len(q)]

\* The last blocking call was op, and it has returned.
Returned(op) == pc = "idle" /\ ret.op = op

RECURSIVE Declared(_)
\* The option declarations among the lines, parsed, in the order received.
Declared(lines) ==
    IF lines = <<>> THEN <<>>
    ELSE (IF Len(Head(lines)) > 1 /\ Head(lines)[1] = "option"
          THEN <<UnmarshalText(Head(lines)).o>> ELSE <<>>)
         \o Declared(Tail(lines))

RECURSIVE Reported(_, _, _)
\* The text after "id <key> " in the last such line, or dflt without one.
Reported(lines, key, dflt) ==
    IF lines = <<>> THEN dflt
    ELSE LET l == Last(lines)
         IN  IF Len(l) >= 3 /\ l[1] = "id" /\ l[2] = key
             THEN Join(SubSeq(l, 3, Len(l)))
             ELSE Reported(SubSeq(lines, 1, Len(lines) - 1), key, dflt)

MalformedOptionLine(l) ==
    Len(l) > 1 /\ l[1] = "option" /\ UnmarshalText(l).err

\* The lines the loop of the UCI that returns its results has worked on:
\* the line it read after uciok is dropped.
Worked == IF loc.extra THEN SubSeq(seen, 1, Len(seen) - 1) ELSE seen

IsBestMove(l) == Len(l) >= 2 /\ l[1] = "bestmove"

IsInfo(l) == Len(l) >= 1 /\ l[1] = "info"

\* N >= 1 info lines followed by one bestmove line.
InfoThenBest(lines) ==
    /\ Len(lines) >= 2
    /\ IsBestMove(Last(lines))
    /\ \A i \in 1..(Len(lines) - 1) : IsInfo(lines[i])

\* C2: once Go has returned from a stream of N info lines followed by one
\* bestmove line, the info channel has carried N items and is closed, and
\* the result channel has carried the best move.
C2_InfoThenResult ==
    (Returned("GoSearch") /\ InfoThenBest(seen)) =>
        /\ infoCh.sent = Len(seen) - 1
        /\ infoCh.closed
        /\ bestCh.sent = 1

\* The search has one outcome: a best move was delivered, or the channels
\* were closed without one.
Concluded ==
    \/ bestCh.sent = 1 /\ ~bestCh.closed
    \/ bestCh.sent = 0 /\ bestCh.closed /\ infoCh.closed

\* C3: a search whose stream has reached bestmove or its end (Go has
\* returned) eventually has exactly one outcome.
C3_SearchConcludes == Returned("GoSearch") ~> Concluded

\* C4: a handshake that returns without having read uciok returns an error.
C4_TruncatedHandshakeFails ==
    ((Returned("UCI") \/ Returned("UCIRet"))
        /\ \A i \in DOMAIN seen : seen[i] # UciOk) =>
            ret.err # "nil"

\* C5: a handshake that returns the error of a malformed option line leaves
\* the name, the author and the options as they were before the call.
C5_MalformedOptionLeavesFresh ==
    (Returned("UCI") /\ ret.err = "todo") =>
        /\ Name = pre.Name
        /\ Author = pre.Author
        /\ Options = pre.Options

\* C6: IsReady returns no error only after it has read readyok; when the
\* stream ends before readyok it returns an error.
C6_IsReadyOnlyAfterReadyOk ==
    Returned("IsReady") =>
        (ret.err = "nil" <=> (seen # <<>> /\ Last(seen) = ReadyOk))

\* The commands permitted only when no search is outstanding.
Gated ==
    {"SetOption", "Register", "RegisterLater", "UCINewGame", "Debug",
     "PositionFEN", "PositionStartPos"}

\* The text the last call wrote.
LastText == SubSeq(w, last.from + 1, Len(w))

\* C7: a gated command called while a search is outstanding writes nothing.
C7_GatedWhileSearching ==
    (last.op \in Gated /\ last.searching) => LastText = <<>>

\* One line: no newline but the last atom.
OneLine(text) ==
    /\ text # <<>>
    /\ Last(text) = NL
    /\ \A i \in 1..(Len(text) - 1) : text[i] # NL

\* C8: every call writes exactly one newline-terminated line.
C8_OneLinePerCommand == last.op # "none" => OneLine(LastText)

RECURSIVE Fields(_)
\* strings.Fields of a text: its maximal runs of words, each run the
\* sequence of the atoms written next to each other.
Fields(text) ==
    IF text = <<>> THEN <<>>
    ELSE IF Head(text) \in {SP, NL} THEN Fields(Tail(text))
    ELSE LET rest == Fields(Tail(text))
         IN  IF Len(text) > 1 /\ text[2] \notin {SP, NL}
             THEN <<<<Head(text)>> \o Head(rest)>> \o Tail(rest)
             ELSE <<<<Head(text)>>>> \o rest

\* The numerals a go command may hold.
Numerals ==
    {ToString(n) : n \in Counts \cup Durations
                          \cup {d \div 1000000 : d \in Durations}}

\* A token sequence with every numeral replaced by "N".
Shape(tokens) ==
    [i \in DOMAIN tokens |->
        IF Len(tokens[i]) = 1 /\ tokens[i][1] \in Numerals
        THEN <<"N">> ELSE tokens[i]]

Flag(present, key) == IF present THEN <<<<key>>>> ELSE <<>>

Num(present, key) == IF present THEN <<<<key>>, <<"N">>>> ELSE <<>>

\* The tokens of a go command, by the fixed order of the ident.
GoShape(p) ==
    <<<<"go">>>>
        \o Flag(p.Ponder, "ponder")
        \o Flag(p.Infinite, "infinite")
        \o Num(p.Mate # 0, "mate")
        \o Num(p.MoveTime # 0, "movetime")
        \o Num(p.WhiteTime # 0, "wtime")
        \o Num(p.BlackTime # 0, "btime")
        \o Num(p.WhiteIncrement # 0, "winc")
        \o Num(p.BlackIncrement # 0, "binc")
        \o Num(p.MovesToGo # 0, "movestogo")
        \o Num(p.Depth # 0, "depth")
        \o Num(p.Nodes # 0, "nodes")
        \o (IF p.SearchMoves # <<>>
            THEN <<<<"searchmoves">>>>
                     \o [i \in DOMAIN p.SearchMoves |-> <<p.SearchMoves[i]>>]
            ELSE <<>>)

GoWritten == last.op \in {"Go", "GoSearch"}

\* C9: the text of a go command, split on white space, is go followed by
\* the fields that are present, in the fixed order, searchmoves last.
C9_GoFieldOrder == GoWritten => Shape(Fields(LastText)) = GoShape(req)

DurationKeys ==
    {<<"movetime", "MoveTime">>, <<"wtime", "WhiteTime">>,
     <<"btime", "BlackTime">>, <<"winc", "WhiteIncrement">>,
     <<"binc", "BlackIncrement">>}

\* C10: the number written after the keyword of a duration field is the
\* duration in whole milliseconds.
C10_MillisecondTruncation ==
    GoWritten =>
        \A k \in DurationKeys :
            \A i \in 1..(Len(Fields(LastText)) - 1) :
                Fields(LastText)[i] = <<k[1]>> =>
                    Fields(LastText)[i + 1] =
                        <<ToString(req[k[2]] \div 1000000)>>

\* C11: the text of an option whose name holds no "type" word, written as
\* "option name <name> type <kind> [default <d>] [min <m>] [max <M>]
\* [var <v>]*", parses without an error to that option: the same name, kind,
\* default, min, max, and values in their order with repeats kept.
C11_OptionRoundTrip ==
    (parsed.done /\ parsed.by = "option.go")
        => (~parsed.err /\ parsed.o = given)

\* UnmarshalText's first three tests: fewer than five fields, or the first
\* two are not "option" and "name".
Rejected(fields) ==
    \/ Len(fields) < 5
    \/ fields[1] # "option"
    \/ fields[2] # "name"

\* C12: Option.UnmarshalText returns an error for every line of fewer than
\* five fields and for every line whose first two fields are not "option"
\* and "name", and a handshake that reads such a line adds nothing to the
\* option list.
C12_ParseRejection ==
    Rejected(input) =>
        /\ parsed.done => parsed.err
        /\ Options = <<>>

\* A handshake has read "option name" with two more fields and returned the
\* error, and UnmarshalText alone has returned an error for that line.
C12_Witness ==
    /\ Returned("UCI")
    /\ seen = <<input>>
    /\ Len(input) = 4
    /\ SubSeq(input, 1, 2) = <<"option", "name">>
    /\ ret.err = "todo"
    /\ parsed.done
    /\ parsed.err

\* The first field "type" after "option name", where the keys begin.
FirstType ==
    IF \E i \in 3..Len(input) : input[i] = "type"
    THEN CHOOSE i \in 3..Len(input) :
            input[i] = "type" /\ \A j \in 3..(i - 1) : input[j] # "type"
    ELSE Len(input) + 1

\* The places, from there on, where the key is followed by another field.
Followed(key) == {i \in FirstType..(Len(input) - 1) : input[i] = key}

IsInteger(tok) == \E n \in 0..9 : ToString(n) = tok

IntegerOf(tok) == CHOOSE n \in 0..9 : ToString(n) = tok

\* The field is an integer, the one written after the last such key. (The
\* Option of uci.go holds strings in Min and Max, never an integer.)
HoldsInteger(key, field) ==
    Followed(key) # {} =>
        /\ parsed.by = "option.go"
        /\ LET i == CHOOSE i \in Followed(key) : \A j \in Followed(key) : j <= i
           IN  field = IntegerOf(input[i + 1])

\* C13: parsing an option line in which the field after a min or a max key
\* is not an integer returns an error; when every one is an integer, Min
\* and Max hold the integers written after min and after max.
C13_NumericFields ==
    (parsed.done /\ ~Rejected(input)) =>
        /\ (\E i \in Followed("min") \cup Followed("max") :
                ~IsInteger(input[i + 1])) => parsed.err
        /\ ~parsed.err =>
              /\ HoldsInteger("min", parsed.o.Min)
              /\ HoldsInteger("max", parsed.o.Max)

\* No two entries of the list have the same name.
UniqueNames(opts) ==
    \A i, j \in 1..Len(opts) : i # j => opts[i].Name # opts[j].Name

\* C14: after any sequence of handshakes no two entries of the option list
\* have the same name: a declaration with the name of an earlier one takes
\* its place. (The list is c.Options, and the list UCI returns in part_000.)
C14_UniqueOptionNames ==
    /\ UniqueNames(Options)
    /\ UniqueNames(out.opts)

\* C15: Debug(on) writes exactly one line, "debug on" when on is true and
\* "debug off" when it is false, so that after Debug(true) the last debug
\* command written is "debug on".
C15_DebugLiteral ==
    last.op = "Debug" =>
        LastText = <<"debug", SP, IF last.args[1] THEN "on" ELSE "off", NL>>

RECURSIVE Spaced(_)
\* Each word with a space before it.
Spaced(ws) ==
    IF ws = <<>> THEN <<>> ELSE <<SP, Head(ws)>> \o Spaced(Tail(ws))

\* " moves m1 m2 ..." when there is a move, and nothing when there is none.
MovesPart(moves) ==
    IF moves = <<>> THEN <<>> ELSE <<SP, "moves">> \o Spaced(moves)

\* C16: a position command writes a single line: "position fen <fen>" or
\* "position startpos", then on the same line " moves m1 m2 ..." if and only
\* if there is at least one move.
C16_PositionLine ==
    /\ last.op = "PositionFEN" =>
          LastText = <<"position", SP, "fen", SP, last.args[1]>>
                         \o MovesPart(last.args[2]) \o <<NL>>
    /\ last.op = "PositionStartPos" =>
          LastText = <<"position", SP, "startpos">>
                         \o MovesPart(last.args[1]) \o <<NL>>
    /\ last.op = "Position" => OneLine(LastText)

\* C17: SetOption(name, value) writes the command "setoption name <name>"
\* when value is empty and "setoption name <name> value <value>" otherwise:
\* those are the fields of the text it writes to the output.
C17_SetOptionWritten ==
    last.op = "SetOption" =>
        Fields(LastText) =
            IF last.args[2] = ""
            THEN <<<<"setoption">>, <<"name">>, <<last.args[1]>>>>
            ELSE <<<<"setoption">>, <<"name">>, <<last.args[1]>>,
                   <<"value">>, <<last.args[2]>>>>

\* C18: PonderHit writes "ponderhit" when a search started with Ponder is
\* outstanding, and writes nothing in every other state.
C18_PonderHitGated ==
    last.op = "PonderHit" =>
        LastText = IF last.searching /\ req.Ponder
                   THEN <<"ponderhit", NL>> ELSE <<>>

\* Where the last go command before the last call begins in w, or 0.
LastGo ==
    IF \E i \in 1..last.from : w[i] = "go"
    THEN CHOOSE i \in 1..last.from :
            w[i] = "go" /\ \A j \in (i + 1)..last.from : w[j] # "go"
    ELSE 0

\* A stop was written for the outstanding search before the last call.
StoppedBefore ==
    LastGo > 0 /\ \E i \in LastGo..last.from : w[i] = "stop"

\* C19: a Stop called while a search is outstanding, after a Stop for the
\* same search, does nothing (it writes nothing), and the search gives no
\* more than one BestMove.
C19_StopIdempotent ==
    /\ (last.op = "Stop" /\ last.searching /\ StoppedBefore)
          => LastText = <<>>
    /\ bestCh.sent <= 1

\* C20: no line is lost between blocking calls: when a blocking call has
\* returned, every line the reader gave up and Scan did not return to that
\* call is still there for the next call. (A line held in the returned
\* call's scanner is not: the next call makes its own scanner over c.r.)
C20_NoLineLost == pc = "idle" => buf = <<>>

\* The lines of seen were read by a handshake, in progress or returned.
InHandshake ==
    \/ pc \in {"UCI", "UCIRet"}
    \/ pc = "idle" /\ ret.op \in {"UCI", "UCIRet"}

\* C21: UCI returns as soon as it has read "uciok": a handshake that has
\* read it is no longer in progress (it asks the stream for no further
\* line), and no line it read comes after "uciok".
C21_ReturnsAtUciOk ==
    /\ pc \in {"UCI", "UCIRet"} => \A i \in 1..Len(seen) : seen[i] # UciOk
    /\ InHandshake => \A i \in 1..(Len(seen) - 1) : seen[i] # UciOk

\* The lines of seen were read by Go, in progress or returned.
InSearch ==
    \/ pc = "GoSearch"
    \/ pc = "idle" /\ ret.op = "GoSearch"

\* C22: the first line "bestmove <move>" or "bestmove <move> ponder <move>"
\* ends Go's read loop: a Go that has read one is no longer reading, and no
\* line it read comes after one.
C22_GoStopsAtBestMove ==
    /\ pc = "GoSearch" => \A i \in 1..Len(seen) : ~IsBestMove(seen[i])
    /\ InSearch => \A i \in 1..(Len(seen) - 1) : ~IsBestMove(seen[i])

\* What a walk by pairs finds: the fields after the keys, as written, and
\* whether the field after a min or a max is not an integer.
NoPairs ==
    [Type |-> "", Default |-> "", Min |-> "", Max |-> "", Vars |-> <<>>,
     bad |-> FALSE]

RECURSIVE PairWalk(_, _, _)
\* The walk over (key, value) pairs: the field after a recognized key is its
\* value, and the next key is looked for after that value.
PairWalk(fields, pos, o) ==
    IF pos >= Len(fields) THEN o
    ELSE LET cur == fields[pos]
             nxt == fields[pos + 1]
         IN  CASE cur = "type" ->
                    PairWalk(fields, pos + 2, [o EXCEPT !.Type = nxt])
               [] cur = "default" ->
                    PairWalk(fields, pos + 2, [o EXCEPT !.Default = nxt])
               [] cur = "min" ->
                    PairWalk(fields, pos + 2,
                             [o EXCEPT !.Min = nxt,
                                       !.bad = @ \/ ~IsInteger(nxt)])
               [] cur = "max" ->
                    PairWalk(fields, pos + 2,
                             [o EXCEPT !.Max = nxt,
                                       !.bad = @ \/ ~IsInteger(nxt)])
               [] cur = "var" ->
                    PairWalk(fields, pos + 2,
                             [o EXCEPT !.Vars = Append(@, nxt)])
               [] OTHER -> PairWalk(fields, pos + 1, o)

\* The numeric field holds what was written: the integer in option.go
\* (zero when the key is absent), the string itself in uci.go.
HoldsWritten(field, tok) ==
    IF parsed.by = "option.go"
    THEN field = (IF tok = "" THEN 0 ELSE IntegerOf(tok))
    ELSE field = tok

\* C23: option parsing walks the fields from "type" on as (key, value)
\* pairs: a field taken as the value of a key is never read as a key, so the
\* parse fails only at a min or max pair whose value is not an integer, and
\* otherwise each field of the option is what its own pairs set.
C23_PairWalk ==
    (parsed.done /\ ~Rejected(input)) =>
        LET want == PairWalk(input, FirstType, NoPairs)
        IN  /\ parsed.err => want.bad
            /\ ~parsed.err =>
                  /\ parsed.o.Type = want.Type
                  /\ parsed.o.Default = want.Default
                  /\ parsed.o.Vars = want.Vars
                  /\ HoldsWritten(parsed.o.Min, want.Min)
                  /\ HoldsWritten(parsed.o.Max, want.Max)

\* C24: the name, the author and the option list change only in a step of
\* the handshake: every step of IsReady, of Go, of Stop, PonderHit, Quit and
\* the other commands leaves them as they were, whatever line it reads.
C24_IdentityOnlyInHandshake ==
    [][pc # "UCI" => UNCHANGED <<Name, Author, Options>>]_vars

\* IsReady has returned after reading an "id name", an "id author" and an
\* "option" line, and the client's fields are still the zero values.
C24_Witness ==
    /\ Returned("IsReady")
    /\ \E i \in 1..Len(seen) : seen[i] = IdNameA
    /\ \E i \in 1..Len(seen) : seen[i] = OptFoo
    /\ Name = <<>>
    /\ Options = <<>>

====
